---- MODULE Spec2Model ----
(***************************************************************************)
(* Message propagation with ideological drift (src/main.py).               *)
(*                                                                         *)
(* Numbers.  The program computes in IEEE doubles.  Every input used here  *)
(* is a dyadic rational (an integer over a power of two) and every value   *)
(* computed from them along a path of at most five nodes needs at most 31  *)
(* significant bits, so the double arithmetic is exact and a number is     *)
(* modelled as the pair <<n, e>> standing for n / 2^e, normalised (n odd   *)
(* or e = 0).                                                              *)
(***************************************************************************)
EXTENDS Integers, Sequences, FiniteSets, TLC

\* ------------------------------------------------------------ exact numbers

RECURSIVE Pow2(_)
Pow2(k) == IF k = 0 THEN 1 ELSE 2 * Pow2(k - 1)

RECURSIVE Pow10(_)
Pow10(k) == IF k = 0 THEN 1 ELSE 10 * Pow10(k - 1)

RECURSIVE Norm(_, _)
Norm(n, e) == IF e > 0 /\ n % 2 = 0 THEN Norm(n \div 2, e - 1) ELSE <<n, e>>

Max(a, b) == IF a >= b THEN a ELSE b

IAbs(n) == IF n < 0 THEN -n ELSE n

Zero == <<0, 0>>
One  == <<1, 0>>

DAdd(a, b) ==
    LET e == Max(a[2], b[2])
    IN  Norm(a[1] * Pow2(e - a[2]) + b[1] * Pow2(e - b[2]), e)

DNeg(a) == <<-a[1], a[2]>>

DSub(a, b) == DAdd(a, DNeg(b))

DMul(a, b) == Norm(a[1] * b[1], a[2] + b[2])

DAbs(a) == <<IAbs(a[1]), a[2]>>

\* a < b
DLess(a, b) ==
    LET e == Max(a[2], b[2])
    IN  a[1] * Pow2(e - a[2]) < b[1] * Pow2(e - b[2])

DLeq(a, b) == ~DLess(b, a)

\* a ** 2
DSquare(a) == DMul(a, a)

\* ------------------------------------------------------- number formatting
(***************************************************************************)
(* Python formats a double by correctly rounding its exact value           *)
(* (round-half-even on exact ties).  The decimal digits of n / 2^e are     *)
(* produced by long division; TimesTen multiplies a remainder r < 2^e by   *)
(* ten and divides by 2^e in two 15-bit limbs so that no intermediate      *)
(* value leaves the 32-bit integers of the model checker.                  *)
(***************************************************************************)
Limb == Pow2(15)

TimesTen(r, e) ==
    IF e < 15
    THEN [digit |-> (10 * r) \div Pow2(e), rem |-> (10 * r) % Pow2(e)]
    ELSE LET T == 10 * (r % Limb)
             H == 10 * (r \div Limb) + T \div Limb
             L == T % Limb
         IN  [digit |-> H \div Pow2(e - 15),
              rem   |-> (H % Pow2(e - 15)) * Limb + L]

\* floor(q + r/2^e) scaled by 10^d: the units q' and the remainder r' / 2^e
RECURSIVE Digits(_, _, _, _)
Digits(q, r, e, d) ==
    IF d = 0 THEN [q |-> q, r |-> r]
    ELSE LET t == TimesTen(r, e)
         IN  Digits(10 * q + t.digit, t.rem, e, d - 1)

RoundHalfEven(q, r, e) ==
    IF e = 0 THEN q
    ELSE IF r > Pow2(e - 1) THEN q + 1
    ELSE IF r = Pow2(e - 1) THEN q + (q % 2)
    ELSE q

Sign(n) == IF n < 0 THEN -1 ELSE 1

\* format(x, ".<d>f"): the printed number, counted in units of 10^-d
FormatFixed(x, d) ==
    LET a == IAbs(x[1])
        s == Digits(a \div Pow2(x[2]), a % Pow2(x[2]), x[2], d)
    IN  Sign(x[1]) * RoundHalfEven(s.q, s.r, x[2])

\* the number of decimals at which |x| = q + r/2^e shows prec significant digits
RECURSIVE Decimals(_, _, _, _, _)
Decimals(q, r, e, d, prec) ==
    IF q >= Pow10(prec - 1) THEN d
    ELSE LET t == TimesTen(r, e)
         IN  Decimals(10 * q + t.digit, t.rem, e, d + 1, prec)

\* format(x, ".<prec>") of a double with |x| < 10: the printed number is
\* m * 10^-d, rounded to prec significant digits; returned as <<m, d>>
FormatGeneral(x, prec) ==
    IF x[1] = 0 THEN <<0, 1>>
    ELSE LET a == IAbs(x[1])
             d == Decimals(a \div Pow2(x[2]), a % Pow2(x[2]), x[2], 0, prec)
             s == Digits(a \div Pow2(x[2]), a % Pow2(x[2]), x[2], d)
         IN  <<Sign(x[1]) * RoundHalfEven(s.q, s.r, x[2]), d>>

\* ---------------------------------------------------------------- bounds

\* the length of the chain the driver builds (node ids 0 .. MaxNodes - 1):
\* num_nodes_in_chain, which is 10 in the source
MaxNodes == 4

\* values random.random() may return: the half-open interval [0, 1)
IdeologyValues == {<<0, 0>>, <<1, 2>>, <<3, 2>>}

\* line 175: bias_range = [(0.5, 1.0), (0.5, 2.0), (0.5, 3.0)]
bias_range == <<<<(<<1, 1>>), One>>, <<(<<1, 1>>), (<<2, 0>>)>>,
                <<(<<1, 1>>), (<<3, 0>>)>>>>

\* for each range of bias_range, the values taken here for what
\* random.uniform(lo, hi) returns
BiasValues == <<{<<1, 1>>}, {<<1, 0>>}, {<<2, 0>>}>>

\* line 176: sensitivity = [.5, 1.0, 1.5, 2.0]
SensitivityValues == <<(<<1, 1>>), (<<1, 0>>), (<<3, 1>>), (<<2, 0>>)>>

\* line 186: for j in range(10)
RunsPerPoint == 10

\* the attribute dictionary of an edge no message has crossed
NoValue == <<>>

\* ------------------------------------------------------------------ state

VARIABLES
    nodes,                    \* Network.nodes: node id -> Node
    graph,                    \* Network.graph: the nodes and the edges with
                              \* their message_ideology attribute
    last_node_added,          \* Network.last_node_added
    run_id,                   \* the caller's run counter, which it passes as
                              \* the run_id argument
    pc,                       \* "idle" (no call yet), or where the latest call
                              \* of propagate_message stands: "loop" (before an
                              \* iteration), "done" (returned), "error" (raised)
    error,                    \* the exception propagate_message raised
    source_id, target_id, sensitivity,        \* arguments of the call
    path, i,                  \* the shortest path and the loop index
    message,                  \* message.ideology_score
    initial_message_ideology,
    fidelity_drift, plausibility_drift, fail_flag,
    out,                      \* the lines the call has printed
    added,                    \* the arguments of the latest add_node call
    trace                     \* every iteration's node, before_score,
                              \* message.ideology_score and accumulators at
                              \* its end (hop 0 included)

net  == <<nodes, graph, last_node_added, added>>
call == <<source_id, target_id, sensitivity, path, i, message,
          initial_message_ideology, fidelity_drift, plausibility_drift,
          fail_flag, out, trace, error>>
vars == <<nodes, graph, last_node_added, run_id, pc, error, source_id,
          target_id, sensitivity, path, i, message, initial_message_ideology,
          fidelity_drift, plausibility_drift, fail_flag, out, added, trace>>

\* ------------------------------------------------------------- Node model

\* a constructor that replaces a multiplier that is not positive by 1
Node_positive_bias(node_id, ideology_score, bias_multiplier) ==
    [node_id |-> node_id, ideology_score |-> ideology_score,
     bias_multiplier |-> IF DLess(Zero, bias_multiplier)
                         THEN bias_multiplier ELSE One]

Node(node_id, ideology_score, bias_multiplier) ==
    [node_id |-> node_id, ideology_score |-> ideology_score,
     bias_multiplier |-> bias_multiplier]

\* no clamping at all
clip_none(x, lo, hi) == x

\* np.clip(x, lo, hi)
clip(x, lo, hi) == IF DLess(x, lo) THEN lo ELSE IF DLess(hi, x) THEN hi ELSE x

process_message(self, message_ideology, sens) ==
    LET delta == DAbs(DSub(self.ideology_score, message_ideology))
        drift == DMul(DMul(self.bias_multiplier, sens), DSquare(delta))
        new_ideology ==
            IF DLess(message_ideology, self.ideology_score)
            THEN DAdd(message_ideology, drift)
            ELSE DSub(message_ideology, drift)
    IN  clip(new_ideology, Zero, One)

\* ------------------------------------------------------------ graph store

\* DiGraph.add_node: a node already there keeps its edges
graph_add_node(G, n) == [G EXCEPT !.nodes = @ \cup {n}]

\* DiGraph.add_edge: missing end points are added, an edge already there
\* keeps its attributes
graph_add_edge(G, u, v) ==
    [nodes |-> G.nodes \cup {u, v},
     edges |-> IF <<u, v>> \in DOMAIN G.edges THEN G.edges
               ELSE [e \in DOMAIN G.edges \cup {<<u, v>>} |->
                        IF e \in DOMAIN G.edges THEN G.edges[e] ELSE NoValue]]

\* the paths of k+1 nodes that start with the paths of P and repeat no node
Extend(G, P) ==
    {Append(p, v) : <<p, v>> \in
        {q \in P \X G.nodes :
            /\ <<q[1][Len(q[1])], q[2]>> \in DOMAIN G.edges
            /\ \A k \in 1 .. Len(q[1]) : q[1][k] # q[2]}}

RECURSIVE Search(_, _, _)
Search(G, P, target) ==
    IF P = {} THEN {}
    ELSE LET hit == {p \in P : p[Len(p)] = target}
         IN  IF hit # {} THEN hit ELSE Search(G, Extend(G, P), target)

\* a search that falls back on the direct hop when it finds no path
shortest_path_or_direct(G, source, target) ==
    IF Search(G, {<<source>>}, target) = {} THEN {<<source, target>>}
    ELSE Search(G, {<<source>>}, target)

\* nx.shortest_path(G, source, target): the directed paths with the fewest
\* edges (the library returns one of them); empty when there is none
shortest_path(G, source, target) == Search(G, {<<source>>}, target)

\* ------------------------------------------------------ propagation engine

\* only the upper end point counts
saturated_upper_only(score) == score = One

\* line 148: the message sits exactly on an end point
saturated(score) == score = Zero \/ score = One

\* the starter node is printed too
reported_all(hop) == TRUE

\* line 155: the starter node is left off the output
reported(hop) == hop # 0

\* the loop without its break
loop_never_breaks(fail, hop, path_length) == hop + 1 < path_length - 1

\* lines 140 and 170-171: another iteration follows this one
loop_continues(fail, hop, path_length) ==
    ~fail /\ hop + 1 < path_length - 1

\* a message that starts neutral instead of at the source's score
Message_neutral(ns, source) == <<1, 1>>

\* line 130: Message(self.nodes[source_id].ideology_score)
Message(ns, source) == ns[source].ideology_score

\* every iteration writes the first edge of the path
carried_edge_first(p, hop) == <<p[1], p[2]>>

\* line 152: the edge attribute written by iteration hop (path is 1-based here)
carried_edge(p, hop) == <<p[hop + 1], p[hop + 2]>>

\* the absolute drift assigned where it is to be added
accumulate_last(fidelity, node_drift) == DAbs(node_drift)

\* the signed drift summed where the absolute one belongs
accumulate_signed(fidelity, node_drift) == DAdd(fidelity, node_drift)

\* lines 156-158
accumulate_fidelity(fidelity, node_drift) == DAdd(fidelity, DAbs(node_drift))

accumulate_plausibility(plausibility, node_drift) ==
    DAdd(plausibility, node_drift)

\* line 169: the last field of the line
transmission_success(fail) == ~fail

\* lines 160-169: the printed line, each number as its format shows it
PrintedLine(rid, current_node, path_length, initial, sens, before_score, score, fidelity, plausibility, fail) ==
    [run_id |-> rid,
     node_id |-> current_node.node_id,
     path_length |-> path_length,
     initial_message_ideology |-> FormatFixed(initial, 5),
     node_ideology |-> FormatFixed(current_node.ideology_score, 5),
     sensitivity |-> sens,
     bias_multiplier |-> FormatFixed(current_node.bias_multiplier, 2),
     before_score |-> FormatFixed(before_score, 5),
     message_ideology |-> FormatFixed(score, 5),
     fidelity_drift |-> FormatFixed(fidelity, 5),
     plausibility_drift |-> FormatGeneral(plausibility, 5),
     transmission_success |-> transmission_success(fail)]

\* ---------------------------------------------------------------- actions

Init ==
    /\ nodes = <<>>
    /\ graph = [nodes |-> {}, edges |-> <<>>]
    /\ last_node_added = 0
    /\ added = <<>>
    /\ run_id = 0
    /\ pc = "idle"
    /\ error = "none"
    /\ source_id = 0 /\ target_id = 0 /\ sensitivity = One
    /\ path = <<>> /\ i = 0
    /\ message = Zero /\ initial_message_ideology = Zero
    /\ fidelity_drift = Zero /\ plausibility_drift = Zero
    /\ fail_flag = FALSE
    /\ out = <<>> /\ trace = <<>>

\* Network.add_node(node_id, bias_multiplier), ideology_score being the
\* value random.random() returned
add_node(node_id, ideology_score, bias_multiplier) ==
    /\ pc # "loop"
    /\ nodes' = [n \in DOMAIN nodes \cup {node_id} |->
                    IF n = node_id
                    THEN Node(node_id, ideology_score, bias_multiplier)
                    ELSE nodes[n]]
    /\ graph' = IF node_id > 0
                THEN graph_add_edge(graph_add_node(graph, node_id),
                                    last_node_added, node_id)
                ELSE graph_add_node(graph, node_id)
    /\ last_node_added' = node_id
    /\ added' = <<node_id, bias_multiplier>>
    /\ UNCHANGED <<run_id, pc, call>>

\* Network.add_edge(source, target)
add_edge(source, target) ==
    /\ pc # "loop"
    /\ graph' = graph_add_edge(graph, source, target)
    /\ UNCHANGED <<nodes, last_node_added, added, run_id, pc, call>>

\* Network.add_edge_from_last_node(target)
add_edge_from_last_node(target) ==
    /\ pc # "loop"
    /\ graph' = graph_add_edge(graph, last_node_added, target)
    /\ UNCHANGED <<nodes, last_node_added, added, run_id, pc, call>>

\* Network.propagate_message(rid, source, target, sens) up to the loop:
\* lines 127-138.  nx.shortest_path raises for a node the graph does not
\* have and for a target out of reach; self.nodes[source_id] raises KeyError
\* for a source the graph has (as the end of an edge) but add_node never
\* stored.
propagate_message(rid, source, target, sens) ==
    /\ pc # "loop"
    /\ run_id' = rid
    /\ source_id' = source /\ target_id' = target /\ sensitivity' = sens
    /\ i' = 0
    /\ fidelity_drift' = Zero /\ plausibility_drift' = Zero
    /\ fail_flag' = FALSE
    /\ out' = <<>> /\ trace' = <<>>
    /\ IF source \notin graph.nodes \/ target \notin graph.nodes
       THEN /\ pc' = "error" /\ error' = "NodeNotFound"
            /\ path' = <<>>
            /\ message' = Zero /\ initial_message_ideology' = Zero
       ELSE IF shortest_path(graph, source, target) = {}
       THEN /\ pc' = "error" /\ error' = "NetworkXNoPath"
            /\ path' = <<>>
            /\ message' = Zero /\ initial_message_ideology' = Zero
       ELSE /\ path' \in shortest_path(graph, source, target)
            /\ IF source \notin DOMAIN nodes
               THEN /\ pc' = "error" /\ error' = "KeyError"
                    /\ message' = Zero /\ initial_message_ideology' = Zero
               ELSE /\ message' = Message(nodes, source)
                    /\ initial_message_ideology' = Message(nodes, source)
                    /\ error' = "none"
                    /\ pc' = IF Len(path') - 1 > 0 THEN "loop" ELSE "done"
    /\ UNCHANGED net

\* one iteration of the loop of propagate_message: lines 140-171.  Line 144
\* raises KeyError, before the iteration has done anything, for a path node
\* add_node never stored.
Hop ==
    /\ pc = "loop"
    /\ IF path[i + 1] \notin DOMAIN nodes
       THEN /\ pc' = "error" /\ error' = "KeyError"
            /\ UNCHANGED <<graph, message, fail_flag, fidelity_drift,
                           plausibility_drift, out, trace, i>>
       ELSE
       LET path_length == Len(path)
           current_node == nodes[path[i + 1]]
           before_score == message
           score == process_message(current_node, before_score, sensitivity)
           fail == fail_flag \/ saturated(score)
           node_drift == DSub(score, before_score)
           fidelity == IF reported(i)
                       THEN accumulate_fidelity(fidelity_drift, node_drift)
                       ELSE fidelity_drift
           plausibility ==
                       IF reported(i)
                       THEN accumulate_plausibility(plausibility_drift,
                                                    node_drift)
                       ELSE plausibility_drift
       IN  /\ message' = score
           /\ fail_flag' = fail
           /\ graph' = [graph EXCEPT !.edges[carried_edge(path, i)] = score]
           /\ fidelity_drift' = fidelity
           /\ plausibility_drift' = plausibility
           /\ out' = IF reported(i)
                     THEN Append(out,
                            PrintedLine(run_id, current_node, path_length,
                                        initial_message_ideology, sensitivity,
                                        before_score, score, fidelity,
                                        plausibility, fail))
                     ELSE out
           /\ trace' = Append(trace, [hop |-> i,
                                      node_id |-> current_node.node_id,
                                      before_score |-> before_score,
                                      message_ideology |-> score,
                                      fidelity_drift |-> fidelity,
                                      plausibility_drift |-> plausibility])
           /\ IF loop_continues(fail, i, path_length)
              THEN i' = i + 1 /\ pc' = "loop"
              ELSE i' = i /\ pc' = "done"
           /\ error' = error
    /\ UNCHANGED <<nodes, last_node_added, added, run_id, source_id,
                   target_id, sensitivity, path, initial_message_ideology>>

\* ------------------------------------------------------------ the driver
\* lines 183-191: for every range of bias_range, every sensitivity and
\* RunsPerPoint times: a fresh network, the nodes 0 .. MaxNodes - 1 added in
\* order, one call of propagate_message from node 0 to the last node with
\* the run counter, then the counter goes up by one

\* the runs of the three nested loops
TotalRuns == Len(bias_range) * Len(SensitivityValues) * RunsPerPoint

\* the loop variables bias and s during run number rid
bias_of(rid) == (rid \div (Len(SensitivityValues) * RunsPerPoint)) + 1

sensitivity_of(rid) == ((rid \div RunsPerPoint) % Len(SensitivityValues)) + 1

\* random.uniform(bias[0], bias[1]) for the range with index k
uniform(k) ==
    {b \in BiasValues[k] : DLeq(bias_range[k][1], b) /\ DLeq(b, bias_range[k][2])}

\* lines 188-189
DriverAddNode ==
    /\ pc = "idle"
    /\ run_id < TotalRuns
    /\ Cardinality(DOMAIN nodes) < MaxNodes
    /\ \E ideology_score \in IdeologyValues,
          bias_multiplier \in uniform(bias_of(run_id)) :
          add_node(Cardinality(DOMAIN nodes), ideology_score, bias_multiplier)

\* line 190
DriverPropagate ==
    /\ pc = "idle"
    /\ run_id < TotalRuns
    /\ Cardinality(DOMAIN nodes) = MaxNodes
    /\ propagate_message(run_id, 0, MaxNodes - 1,
                         SensitivityValues[sensitivity_of(run_id)])

\* line 191, run_id += 1, and, when the loops have another run to make,
\* line 187 of that run: network = Network().  After the last run the loops
\* end and the network of that run stays as it is.
DriverNextRun ==
    /\ pc = "done"
    /\ run_id < TotalRuns
    /\ run_id' = run_id + 1
    /\ IF run_id + 1 < TotalRuns
       THEN /\ nodes' = <<>>
            /\ graph' = [nodes |-> {}, edges |-> <<>>]
            /\ last_node_added' = 0
            /\ added' = <<>>
            /\ pc' = "idle"
            /\ error' = "none"
            /\ source_id' = 0 /\ target_id' = 0 /\ sensitivity' = One
            /\ path' = <<>> /\ i' = 0
            /\ message' = Zero /\ initial_message_ideology' = Zero
            /\ fidelity_drift' = Zero /\ plausibility_drift' = Zero
            /\ fail_flag' = FALSE
            /\ out' = <<>> /\ trace' = <<>>
       ELSE UNCHANGED <<net, pc, call>>

Next == DriverAddNode \/ DriverPropagate \/ Hop \/ DriverNextRun

Spec == Init /\ [][Next]_vars

\* ------------------------------------------------- arguments of any sign
\* A caller of the class that builds a chain and makes one call between any
\* two node ids, with multipliers and sensitivities that may be zero or
\* negative.

\* longest chain of this scenario
InputNodes == 3

InputNodeIds == 0 .. (InputNodes - 1)

InputIdeologyValues == {<<0, 0>>, <<1, 2>>, <<3, 2>>}

InputBiasValues == {<<-1, 0>>, <<0, 0>>, <<1, 1>>}

InputSensitivityValues == {<<-1, 0>>, <<0, 0>>, <<1, 1>>}

InputAddNode ==
    /\ pc = "idle"
    /\ Cardinality(DOMAIN nodes) < InputNodes
    /\ \E ideology_score \in InputIdeologyValues,
          bias_multiplier \in InputBiasValues :
          add_node(Cardinality(DOMAIN nodes), ideology_score, bias_multiplier)

InputPropagate ==
    /\ pc = "idle"
    /\ \E source \in InputNodeIds, target \in InputNodeIds,
          sens \in InputSensitivityValues :
          propagate_message(run_id, source, target, sens)

NextInputs == InputAddNode \/ InputPropagate \/ Hop

SpecInputs == Init /\ [][NextInputs]_vars

\* --------------------------------------------- paths of every length
\* A caller of the class that builds a chain as the driver does and makes
\* one call between any two of its node ids: paths of one node (source equal
\* to target), two, three and more nodes, and calls that find no path.

\* longest chain of this scenario
PathNodes == 4

PathNodeIds == 0 .. (PathNodes - 1)

PathIdeologyValues == {<<0, 0>>, <<1, 2>>, <<3, 2>>}

\* the default of add_node: bias_multiplier=1.0
PathBiasValues == {<<1, 0>>}

\* sensitivities of line 176: 0.5 and 2.0
PathSensitivityValues == {<<1, 1>>, <<2, 0>>}

PathAddNode ==
    /\ pc = "idle"
    /\ Cardinality(DOMAIN nodes) < PathNodes
    /\ \E ideology_score \in PathIdeologyValues,
          bias_multiplier \in PathBiasValues :
          add_node(Cardinality(DOMAIN nodes), ideology_score, bias_multiplier)

PathPropagate ==
    /\ pc = "idle"
    /\ \E source \in PathNodeIds, target \in PathNodeIds,
          sens \in PathSensitivityValues :
          propagate_message(run_id, source, target, sens)

NextPaths == PathAddNode \/ PathPropagate \/ Hop

SpecPaths == Init /\ [][NextPaths]_vars

\* ------------------------------------------- one network, several calls
\* A caller of the class that adds nodes with increasing ids (not
\* necessarily starting at 0), then edges between any two ids through
\* add_edge and add_edge_from_last_node, and then calls propagate_message,
\* again after a call has returned.  An id that is the end of an edge without
\* having been passed to add_node is a node of the graph with no Node object.

\* node ids of this scenario: 0 .. GraphNodes - 1
GraphNodes == 3

\* add_edge and add_edge_from_last_node calls on one network
MaxExtraEdges == 1

\* propagate_message calls on one network
GraphRuns == 2

GraphNodeIds == 0 .. (GraphNodes - 1)

GraphIdeologyValues == {<<0, 0>>, <<3, 2>>}

\* the default of add_node: bias_multiplier=1.0
GraphBiasValues == {<<1, 0>>}

\* the sensitivity this caller passes: 2.0
GraphSensitivityValues == {<<2, 0>>}

\* the edges add_edge and add_edge_from_last_node have added: every add_node
\* with an id above 0 has added one
ExtraEdges ==
    Cardinality(DOMAIN graph.edges)
        - Cardinality({n \in DOMAIN nodes : n > 0})

\* no call of propagate_message yet
Building == pc = "idle"

GraphAddNode ==
    /\ Building
    /\ ExtraEdges = 0
    /\ \E node_id \in GraphNodeIds, ideology_score \in GraphIdeologyValues,
          bias_multiplier \in GraphBiasValues :
          /\ \A n \in DOMAIN nodes : n < node_id
          /\ add_node(node_id, ideology_score, bias_multiplier)

GraphAddEdge ==
    /\ Building
    /\ ExtraEdges < MaxExtraEdges
    /\ \E source \in GraphNodeIds, target \in GraphNodeIds :
          /\ source # target
          /\ <<source, target>> \notin DOMAIN graph.edges
          /\ add_edge(source, target)

GraphAddEdgeFromLast ==
    /\ Building
    /\ ExtraEdges < MaxExtraEdges
    /\ \E target \in GraphNodeIds :
          /\ target # last_node_added
          /\ <<last_node_added, target>> \notin DOMAIN graph.edges
          /\ add_edge_from_last_node(target)

\* the first call, or a further call after the one before has returned,
\* with the next run id
GraphPropagate ==
    /\ pc \in {"idle", "done"}
    /\ \E source \in GraphNodeIds, target \in GraphNodeIds,
          sens \in GraphSensitivityValues :
          /\ source # target
          /\ IF pc = "idle"
             THEN propagate_message(run_id, source, target, sens)
             ELSE /\ run_id + 1 < GraphRuns
                  /\ propagate_message(run_id + 1, source, target, sens)

NextGraph ==
    \/ GraphAddNode
    \/ GraphAddEdge
    \/ GraphAddEdgeFromLast
    \/ GraphPropagate
    \/ Hop

SpecGraph == Init /\ [][NextGraph]_vars

\* every node of the graph has its Node object, so self.nodes[...] never
\* raises in propagate_message: true of the chains of the driver, not of
\* every network a caller can build
NodesRegistered == graph.nodes = DOMAIN nodes

\* ------------------------------------------------------------ properties

InUnit(x) == DLeq(Zero, x) /\ DLeq(x, One)

Positive(x) == DLess(Zero, x)

Running == pc \in {"loop", "done"}

AtEndpoint(x) == x = Zero \/ x = One

\* this step is a call of propagate_message
CallStarts ==
    pc # "loop" /\ pc' # "idle" /\ (pc' # pc \/ run_id' # run_id)

\* the path nodes the loop looks up: all but the target
Visited == {path[k] : k \in 1 .. (Len(path) - 1)}

\* the nodes a directed path leads to from the nodes of S
RECURSIVE Reach(_, _)
Reach(G, S) ==
    LET T == S \cup {e[2] : e \in {d \in DOMAIN G.edges : d[1] \in S}}
    IN  IF T = S THEN S ELSE Reach(G, T)

\* what the specification calls valid: positive multipliers and sensitivity,
\* ideology scores in [0,1]
ValidInputs ==
    /\ Positive(sensitivity)
    /\ \A n \in DOMAIN nodes :
          Positive(nodes[n].bias_multiplier) /\ InUnit(nodes[n].ideology_score)

\* the value process_message computes before it clamps
Unclamped(n, before_score, sens) ==
    LET delta == DAbs(DSub(n.ideology_score, before_score))
        drift == DMul(DMul(n.bias_multiplier, sens), DSquare(delta))
    IN  IF DLess(before_score, n.ideology_score)
        THEN DAdd(before_score, drift) ELSE DSub(before_score, drift)

\* C1: with a positive sensitivity, every message in [0,1] that a node with
\* an ideology score in [0,1] and a positive bias multiplier has processed
\* came out in [0,1], and so is the message after every hop of the run.
C1_ClampInvariant ==
    (Running /\ Positive(sensitivity)) =>
        \A k \in DOMAIN trace :
            (/\ \A j \in 1 .. k : Positive(nodes[trace[j].node_id].bias_multiplier)
             /\ InUnit(nodes[trace[k].node_id].ideology_score)
             /\ InUnit(trace[k].before_score))
            => /\ InUnit(trace[k].message_ideology)
               /\ (k = Len(trace) => InUnit(message))

\* a valid node has clamped a value that left [0,1]
C1_Witness ==
    /\ Running /\ Positive(sensitivity)
    /\ \E k \in DOMAIN trace :
          /\ \A j \in 1 .. k : Positive(nodes[trace[j].node_id].bias_multiplier)
          /\ ~InUnit(Unclamped(nodes[trace[k].node_id], trace[k].before_score,
                               sensitivity))
          /\ InUnit(trace[k].message_ideology)

\* C2: once a hop has left the message on 0 or 1, the call processes no
\* further hop: no node is applied, no edge is written, no line is printed.
C2_SaturationAbsorbing ==
    [][(fail_flag /\ run_id' = run_id) =>
          /\ trace' = trace
          /\ out' = out
          /\ graph' = graph
          /\ message' = message
          /\ pc' = "done"]_vars

\* the run stopped on saturation with path nodes left to visit
C2_Witness ==
    /\ pc = "done" /\ fail_flag
    /\ saturated(message)
    /\ i + 1 < Len(path) - 1
    /\ Len(trace) = i + 1

\* C3 as claimed: whenever a hop leaves the message on 0 or 1, the last
\* printed line of the run is that hop's and shows transmission success false
\* (hop 0 included).  Stated for valid inputs only.
C3_SaturationReported ==
    (/\ Running /\ ValidInputs /\ trace # <<>>
     /\ InUnit(initial_message_ideology)
     /\ AtEndpoint(trace[Len(trace)].message_ideology)) =>
        /\ out # <<>>
        /\ out[Len(out)].node_id = trace[Len(trace)].node_id
        /\ ~out[Len(out)].transmission_success

\* C3 amended: a saturating hop with index >= 1 prints its line with
\* transmission success false and ends the run; a saturating hop 0 ends the
\* run with no line printed at all.  Lines printed before show success true.
C3_SaturationReportedAfterHop0 ==
    /\ (/\ Running /\ trace # <<>>
        /\ AtEndpoint(trace[Len(trace)].message_ideology)) =>
          /\ pc = "done" /\ fail_flag
          /\ IF Len(trace) = 1 THEN out = <<>>
             ELSE /\ Len(out) = Len(trace) - 1
                  /\ out[Len(out)].node_id = trace[Len(trace)].node_id
                  /\ ~out[Len(out)].transmission_success
    /\ \A k \in DOMAIN out :
          out[k].transmission_success <=>
              ~(k = Len(out) /\ AtEndpoint(trace[Len(trace)].message_ideology))

\* a hop after hop 0 saturated and its line is printed
C3_Witness ==
    /\ fail_flag /\ i >= 1
    /\ ValidInputs
    /\ AtEndpoint(message)
    /\ ~out[Len(out)].transmission_success
    /\ Len(out) >= 2

\* |m| * 10^-d <= (f + slack) * 10^-5, for a printed plausibility <<m, d>>
\* and a printed fidelity f (counted in units of 10^-5)
PrintedWithin(plausibility, fidelity, slack) ==
    LET m == IAbs(plausibility[1])
        d == plausibility[2]
    IN  IF d <= 5 THEN m * Pow10(5 - d) <= fidelity + slack
        ELSE IF d >= 10 THEN m = 0 \/ fidelity + slack >= 1
        ELSE (m + Pow10(d - 5) - 1) \div Pow10(d - 5) <= fidelity + slack

\* the accumulators themselves: |plausibility_drift| <= fidelity_drift
DriftBounded == DLeq(DAbs(plausibility_drift), fidelity_drift)

\* C4: at every point of a run, and for the values every line is printed
\* from, the absolute value of the cumulative plausibility drift is at most
\* the cumulative fidelity drift, whatever the inputs.  The line shows the
\* two values in the formats of lines 168-169 (5 decimals, 5 significant
\* digits), each rounded from its value: the two printed numbers keep the
\* bound up to one unit of the fifth decimal.
C4_PlausibilityBounded ==
    /\ DriftBounded
    /\ \A k \in DOMAIN trace :
          DLeq(DAbs(trace[k].plausibility_drift), trace[k].fidelity_drift)
    /\ \A k \in DOMAIN out :
          /\ k + 1 \in DOMAIN trace
          /\ out[k].fidelity_drift = FormatFixed(trace[k + 1].fidelity_drift, 5)
          /\ out[k].plausibility_drift =
                 FormatGeneral(trace[k + 1].plausibility_drift, 5)
          /\ PrintedWithin(out[k].plausibility_drift, out[k].fidelity_drift, 1)

\* two lines printed, the message having moved one way and then back, so
\* that the signed sum is strictly inside the unsigned one, and a line
\* whose two printed numbers differ in the sixth decimal only
C4_Witness ==
    /\ Len(out) >= 2
    /\ plausibility_drift # Zero
    /\ DLess(DAbs(plausibility_drift), fidelity_drift)
    /\ DAbs(trace[2].plausibility_drift) = trace[2].fidelity_drift
    /\ ~PrintedWithin(out[1].plausibility_drift, out[1].fidelity_drift, 0)

\* C5: within a run fidelity_drift starts at 0 and never decreases: each
\* printed line shows a value at least that of the line before it.
C5_FidelityMonotone ==
    /\ Len(trace) <= 1 => fidelity_drift = Zero
    /\ DLeq(Zero, fidelity_drift)
    /\ \A k \in DOMAIN out :
          /\ out[k].fidelity_drift >= 0
          /\ k > 1 => out[k].fidelity_drift >= out[k - 1].fidelity_drift
    /\ out # <<>> => out[Len(out)].fidelity_drift = FormatFixed(fidelity_drift, 5)

\* two lines, the message having moved down in one hop and up in another
C5_Witness ==
    /\ Len(out) >= 2
    /\ out[2].fidelity_drift > out[1].fidelity_drift
    /\ \E j, k \in DOMAIN trace :
          /\ DLess(trace[j].message_ideology, trace[j].before_score)
          /\ DLess(trace[k].before_score, trace[k].message_ideology)

\* C6: no line for hop 0, one line per processed hop >= 1 in path order with
\* the node id path[hop]; so at most max(0, n-2) lines at any point of any
\* call, exactly n-2 when the run has ended and no hop saturated, none when
\* n <= 2; the target never processes the message.
C6_RecordCount ==
    LET n == Len(path)
    IN  /\ Len(out) = Max(0, Len(trace) - 1)
        /\ \A k \in DOMAIN out : out[k].node_id = path[k + 1]
        /\ \A k \in DOMAIN trace :
              /\ trace[k].hop = k - 1
              /\ trace[k].node_id = path[k]
              /\ k <= n - 1
        /\ Len(out) <= Max(0, n - 2)
        /\ (pc = "done" /\ ~fail_flag) => Len(out) = Max(0, n - 2)
        /\ n <= 2 => out = <<>>

\* a run over four nodes that printed its two lines, in path order, without
\* saturating
C6_Witness ==
    /\ pc = "done" /\ ~fail_flag
    /\ Len(path) = 4 /\ Len(out) = 2
    /\ out[1].node_id = path[2] /\ out[2].node_id = path[3]
    /\ path[2] # path[3]
    /\ target_id = path[4]
    /\ trace[2].message_ideology # trace[2].before_score
    /\ trace[3].message_ideology # trace[3].before_score

\* C7 as claimed: a node with a bias multiplier <= 0 is never added and a
\* call with a sensitivity <= 0 never gets to process a message.
C7_InvalidInputsRejected ==
    /\ \A n \in DOMAIN nodes : Positive(nodes[n].bias_multiplier)
    /\ Running => Positive(sensitivity)

\* C7 amended: no input is validated or clamped.  add_node stores the node
\* with the bias multiplier as passed and links it, whatever its sign; a call
\* of propagate_message fails only on a lookup (the graph has no such node,
\* no path, or a path node has no Node object), whatever the sensitivity,
\* and prints the sensitivity as passed.
C7_InputsAccepted ==
    /\ added # <<>> =>
          /\ added[1] \in DOMAIN nodes
          /\ added[1] \in graph.nodes
          /\ nodes[added[1]].bias_multiplier = added[2]
          /\ last_node_added = added[1]
    /\ error \in {"none", "NodeNotFound", "NetworkXNoPath", "KeyError"}
    /\ pc = "error" <=> error # "none"
    /\ error = "NodeNotFound" =>
          source_id \notin graph.nodes \/ target_id \notin graph.nodes
    /\ error = "NetworkXNoPath" =>
          target_id \notin Reach(graph, {source_id})
    /\ error = "KeyError" => \E n \in Visited \cup {source_id} : n \notin DOMAIN nodes
    /\ \A k \in DOMAIN out : out[k].sensitivity = sensitivity

\* a node with a negative bias multiplier has processed a message under a
\* negative sensitivity and its line is printed
C7_Witness ==
    /\ ~Positive(sensitivity)
    /\ out # <<>>
    /\ ~Positive(nodes[out[1].node_id].bias_multiplier)
    /\ out[1].bias_multiplier < 0
    /\ out[1].message_ideology # out[1].before_score

\* C8: a call for which the graph has no directed path from source to target
\* raises before any processing: nothing is printed, no edge gets a carried
\* value and no node changes.
C8_NoPathError ==
    [][(CallStarts
            /\ target_id' \notin Reach(graph, {source_id'} \cap graph.nodes)) =>
          /\ pc' = "error"
          /\ error' \in {"NodeNotFound", "NetworkXNoPath"}
          /\ (source_id' \in graph.nodes /\ target_id' \in graph.nodes)
                => error' = "NetworkXNoPath"
          /\ out' = <<>> /\ trace' = <<>>
          /\ nodes' = nodes /\ graph' = graph]_vars

\* a call between two nodes of the graph failed for want of a path
C8_Witness ==
    /\ pc = "error" /\ error = "NetworkXNoPath"
    /\ source_id \in graph.nodes /\ target_id \in graph.nodes
    /\ source_id # target_id
    /\ Cardinality(DOMAIN graph.edges) >= 2

\* C9: propagate_message changes no node and no node or edge set; a
\* processed iteration i sets the carried value of the edge
\* path[i] -> path[i+1] to the value the message has after it and leaves
\* every other edge's value alone; an iteration that raises, and the call up
\* to the loop, write nothing.
C9_Frame ==
    [][/\ pc = "loop" =>
            /\ nodes' = nodes
            /\ graph'.nodes = graph.nodes
            /\ DOMAIN graph'.edges = DOMAIN graph.edges
            /\ IF trace' = trace
               THEN graph' = graph /\ message' = message /\ pc' = "error"
               ELSE /\ Len(trace') = Len(trace) + 1
                    /\ trace'[Len(trace')].hop = i
                    /\ \A e \in DOMAIN graph.edges :
                          graph'.edges[e] =
                              IF e = <<path[i + 1], path[i + 2]>>
                              THEN trace'[Len(trace')].message_ideology
                              ELSE graph.edges[e]
                    /\ message' = trace'[Len(trace')].message_ideology
       /\ CallStarts => (nodes' = nodes /\ graph' = graph)
      ]_vars

\* a run saturated after hop 0 on a network where an edge off the path and
\* the edge of a hop never processed still carry the values of an earlier run
C9_Witness ==
    /\ pc = "done" /\ fail_flag /\ run_id >= 1
    /\ Len(path) >= 3
    /\ graph.edges[<<path[1], path[2]>>] = message
    /\ \E e \in DOMAIN graph.edges :
          /\ \A k \in 1 .. (Len(path) - 1) : e # <<path[k], path[k + 1]>>
          /\ graph.edges[e] # NoValue
    /\ \E k \in 2 .. (Len(path) - 1) :
          /\ graph.edges[<<path[k], path[k + 1]>>] # NoValue
          /\ graph.edges[<<path[k], path[k + 1]>>] # message

RECURSIVE TotalChange(_, _)
TotalChange(t, k) ==
    IF k = 0 THEN Zero
    ELSE DAdd(TotalChange(t, k - 1),
              DAbs(DSub(t[k].message_ideology, t[k].before_score)))

\* C10: hop 0 leaves the message as it is: the first path edge carries the
\* initial message ideology, the first line shows it as the message before
\* the hop, and fidelity_drift is the sum of |after - before| over all the
\* hops processed, hop 0 included.
C10_Hop0Identity ==
    (Running /\ trace # <<>>) =>
        /\ trace[1].before_score = initial_message_ideology
        /\ trace[1].message_ideology = initial_message_ideology
        /\ initial_message_ideology = nodes[source_id].ideology_score
        /\ Len(trace) = 1 => graph.edges[<<path[1], path[2]>>] = initial_message_ideology
        /\ out # <<>> => out[1].before_score = out[1].initial_message_ideology
        /\ fidelity_drift = TotalChange(trace, Len(trace))

\* a run whose later hops did move the message
C10_Witness ==
    /\ Running /\ Len(out) >= 2
    /\ Positive(fidelity_drift)
    /\ trace[2].message_ideology # trace[2].before_score
    /\ InUnit(initial_message_ideology)

====
